---- MODULE Spec2Model ----
(***************************************************************************)
(* SSH login monitor (src/monitor.py): the main loop with its per-IP       *)
(* sliding window of failed attempts, the AI enrichment call with its      *)
(* retry loop, the WhatsApp notification, and the log tail (tail_file)     *)
(* with the log file's directory entry as its environment.                 *)
(*                                                                         *)
(* A string is modelled as a sequence of tokens; a token is a character    *)
(* or a fixed literal of the source.  Timestamps are integers, in minutes. *)
(***************************************************************************)
EXTENDS Integers, Sequences, FiniteSets

VARIABLES
    cfg,        \* the configuration read from the environment (lines 23-41)
    pc,         \* position of the single sequential flow
    cur,        \* main: the line being processed (its two regex matches)
    now,        \* main: now = datetime.utcnow() of the current line
    count,      \* main: count = len(attempts[ip]) of the current failed line
    attempts,   \* main: attempts = defaultdict(list), ip -> timestamps
    ai,         \* main: ai = analyze_with_gemini(...)
    attempt,    \* analyze_with_gemini: loop variable of the retry loop
    requests,   \* number of requests.post calls made by the current call
    waits,      \* the time.sleep arguments of the current call, in order
    last,       \* what the backend answered to the latest request of the call
    retried,    \* how many answers of the call were an HTTP 429 or a timeout
    nsent,      \* send_whatsapp calls made for the current line
    posts,      \* requests.post calls made by send_whatsapp for the line
    posted,     \* what the transport did with that POST; "none" without a POST
    delivered,  \* return value of the send_whatsapp call of the line
    lastMsg,    \* the message handed to send_whatsapp for the line
    hist,       \* per IP: clock readings of its failed lines since its last alert
    alerted,    \* the IPs that have had an alert (recorded under SpecBurst only)
    files,      \* the log directory: inode -> content of the file, in chunks
    pathIno,    \* the inode the log path names; 0 when the path names nothing
    readable,   \* whether open(path) is permitted to the monitor
    made,       \* the number of inodes created so far
    nwritten,   \* the number of lines the writer has started so far
    f,          \* tail_file: the file object f (inode, position, open or closed)
    inode,      \* tail_file: the local inode; 0 stands for None
    tpc,        \* tail_file: position in its loop
    yielded,    \* the strings tail_file has yielded
    again       \* the strings tail_file has yielded more than once

mainVars == <<cfg, pc, cur, now, count, attempts, ai, attempt, requests, waits,
              last, retried, nsent, posts, posted, delivered, lastMsg, hist,
              alerted>>

tailVars == <<files, pathIno, readable, made, nwritten, f, inode, tpc,
              yielded, again>>

vars == <<mainVars, tailVars>>

---------------------------------------------------------------------------
(* Bounds of the model *)

\* clock readings are drawn from 0..MaxClock; they need not be monotonic
\* (datetime.utcnow() is the wall clock)
MaxClock == 2

\* at most MaxPending failed lines, over all IPs, are recorded and not yet
\* cleared by an alert of their IP
MaxPending == 4

\* the writer starts at most MaxWrites lines
MaxWrites == 2

\* at most MaxFiles files ever exist in the log directory
MaxFiles == 2

---------------------------------------------------------------------------
(* Configuration.  WINDOW_MINUTES and THRESHOLD_ATTEMPTS are read from the  *)
(* environment (lines 26-27, default 5 each); the model runs with a window  *)
(* of one minute and a threshold of three attempts.  The prompt handed to   *)
(* the backend (lines 85-94) is not part of the state: nothing reads it.    *)

WINDOW_MINUTES == 1

THRESHOLD_ATTEMPTS == 3

\* one retry more than the source allows
max_retries_Four == 3 + 1

max_retries == 3

IPs == {"10.0.0.5", "203.0.113.9"}

Clock == 0..MaxClock

NoMatch == [user |-> "", ip |-> ""]

Match(user, ip) == [user |-> user, ip |-> ip]

\* A log line, by what the two regular expressions find in it:
\* f is FAILED_RE.search(line), a is ACCEPTED_RE.search(line).
Lines ==
    { [f |-> Match("root", "10.0.0.5"),    a |-> NoMatch],
      [f |-> Match("root", "203.0.113.9"), a |-> NoMatch],
      [f |-> NoMatch, a |-> Match("deploy", "203.0.113.9")],
      [f |-> Match("root", "10.0.0.5"), a |-> Match("deploy", "203.0.113.9")],
      [f |-> NoMatch, a |-> NoMatch] }

NoLine == [f |-> NoMatch, a |-> NoMatch]

\* NOTIFY_ON_SUCCESS not looked at
Classify_FlagIgnored(line, notifySuccess) ==
    IF line.f # NoMatch THEN "Failed"
    ELSE IF line.a # NoMatch THEN "Accepted"
    ELSE "Ignored"

\* main, lines 169-170 and 202-203: the failed pattern is tried first
Classify(line, notifySuccess) ==
    IF line.f # NoMatch THEN "Failed"
    ELSE IF line.a # NoMatch /\ notifySuccess THEN "Accepted"
    ELSE "Ignored"

---------------------------------------------------------------------------
(* The attempt window, lines 172-177 and 197 *)

RECURSIVE Filter_Strict(_, _)
\* the comparison taken strictly: t > cutoff
Filter_Strict(s, cutoff) ==
    IF s = <<>> THEN <<>>
    ELSE IF Head(s) > cutoff THEN <<Head(s)>> \o Filter_Strict(Tail(s), cutoff)
         ELSE Filter_Strict(Tail(s), cutoff)

RECURSIVE Filter(_, _)
\* [t for t in s if t >= cutoff]
Filter(s, cutoff) ==
    IF s = <<>> THEN <<>>
    ELSE IF Head(s) >= cutoff THEN <<Head(s)>> \o Filter(Tail(s), cutoff)
         ELSE Filter(Tail(s), cutoff)

\* the cleanup of the window left out
OnFailed_NoPrune(window, t) == Append(window, t)

\* attempts[ip].append(now); cutoff = now - WINDOW; attempts[ip] = [t ...]
OnFailed(window, t) == Filter(Append(window, t), t - WINDOW_MINUTES)

\* the comparison taken strictly: count > THRESHOLD_ATTEMPTS
ThresholdReached_Strict(c) == c > THRESHOLD_ATTEMPTS

\* if count >= THRESHOLD_ATTEMPTS
ThresholdReached(c) == c >= THRESHOLD_ATTEMPTS

\* the reset clearing every window: attempts.clear()
Reset_All(a, ip) == [i \in DOMAIN a |-> <<>>]

\* the reset left out
Reset_Keep(a, ip) == a

\* attempts[ip] = []
Reset(a, ip) == [a EXCEPT ![ip] = <<>>]

---------------------------------------------------------------------------
(* analyze_with_gemini, lines 74-130 *)

Whitespace == {" ", "\n"}

RECURSIVE LStrip(_)
LStrip(s) ==
    IF s # <<>> /\ Head(s) \in Whitespace THEN LStrip(Tail(s)) ELSE s

RECURSIVE RStrip(_)
RStrip(s) ==
    IF s # <<>> /\ s[Len(s)] \in Whitespace
    THEN RStrip(SubSeq(s, 1, Len(s) - 1)) ELSE s

\* str.strip()
Strip(s) == RStrip(LStrip(s))

\* texts the backend may put in candidates[0].content.parts[0].text
Texts == { <<"o", "k">>, <<" ", "o", "k", "\n">> }

\* What one requests.post to the backend can end in.
Outcomes ==
    [kind : {"ok"}, text : Texts, status : {200}]
    \cup [kind : {"nocandidates",   \* 2xx, JSON without (or with empty) candidates
                  "badcandidate",   \* 2xx, candidates[0] lacks content.parts[0].text
                  "badbody"},       \* 2xx, body is not a JSON object
          text : {<<>>}, status : {200}]
    \cup [kind : {"http"}, text : {<<>>}, status : {429, 500}]
    \cup [kind : {"timeout", "connerror"}, text : {<<>>}, status : {0}]

\* str(status) of the statuses of the model
StatusText(status) == IF status = 429 THEN "429" ELSE IF status = 500 THEN "500" ELSE "200"

\* no request made yet
NoOutcome == [kind |-> "none", text |-> <<>>, status |-> 0]

\* an answer that is an HTTP 429 or a timeout
Retryable(o) == o.kind = "timeout" \/ (o.kind = "http" /\ o.status = 429)

AI_ERROR == "(AI error: "

AI_NONAKTIF == <<"(AI nonaktif: GEMINI_API_KEY tidak diset)">>
AI_PARSE    == <<AI_ERROR, "response parsing failed", ")">>
AI_EMPTY    == <<AI_ERROR, "empty response", ")">>
AI_RETRIES  == <<AI_ERROR, "request gagal setelah beberapa retry", ")">>
AI_HTTP(status) == <<AI_ERROR, "HTTPError ", StatusText(status), ")">>
AI_EXC(class)   == <<AI_ERROR, class, ")">>

\* The try body, lines 99-108: what it returns, or the exception it raises.
TryBody(o) ==
    CASE o.kind = "ok"           -> [ret |-> TRUE,  val |-> Strip(o.text), exc |-> "", status |-> 0]
      [] o.kind = "badcandidate" -> [ret |-> TRUE,  val |-> AI_PARSE,  exc |-> "", status |-> 0]
      [] o.kind = "nocandidates" -> [ret |-> TRUE,  val |-> AI_EMPTY,  exc |-> "", status |-> 0]
      [] o.kind = "badbody"      -> [ret |-> FALSE, val |-> <<>>, exc |-> "ValueError", status |-> 0]
      [] o.kind = "http"         -> [ret |-> FALSE, val |-> <<>>, exc |-> "HTTPError", status |-> o.status]
      [] o.kind = "timeout"      -> [ret |-> FALSE, val |-> <<>>, exc |-> "Timeout", status |-> 0]
      [] o.kind = "connerror"    -> [ret |-> FALSE, val |-> <<>>, exc |-> "ConnectionError", status |-> 0]

\* every status from 429 up taken for rate limiting
IsRateLimited_From429(status) == status >= 429

\* if status == 429
IsRateLimited(status) == status = 429

\* the same wait before every retry
Backoff_Flat(n) == 2

\* wait = attempt * 2
Backoff(n) == n * 2

\* The classes the last except clause (except Exception) catches.
CaughtByException == {"ValueError", "ConnectionError", "TypeError"}

\* the except clauses without the last one: other exceptions propagate
Handler_NoCatchAll(r) ==
    IF r.exc = "HTTPError" THEN
        IF IsRateLimited(r.status) THEN [do |-> "retry", val |-> <<>>]
        ELSE [do |-> "return", val |-> AI_HTTP(r.status)]
    ELSE IF r.exc = "Timeout" THEN [do |-> "retry", val |-> <<>>]
    ELSE [do |-> "raise", val |-> <<>>]

\* The except clauses, lines 109-128, tried in order: what the handler does.
Handler(r) ==
    IF r.exc = "HTTPError" THEN
        IF IsRateLimited(r.status) THEN [do |-> "retry", val |-> <<>>]
        ELSE [do |-> "return", val |-> AI_HTTP(r.status)]
    ELSE IF r.exc = "Timeout" THEN [do |-> "retry", val |-> <<>>]
    ELSE IF r.exc \in CaughtByException THEN [do |-> "return", val |-> AI_EXC(r.exc)]
    ELSE [do |-> "raise", val |-> <<>>]

\* One iteration of the for loop, lines 97-128.
Iteration(o) ==
    LET r == TryBody(o) IN
    IF r.ret THEN [do |-> "return", val |-> r.val] ELSE Handler(r)

\* exhausted retries raising instead of returning the fallback
AfterLoop_Raise == [do |-> "raise", val |-> <<>>]

\* line 130, after the loop: return the fallback string
AfterLoop == [do |-> "return", val |-> AI_RETRIES]

---------------------------------------------------------------------------
(* Messages, lines 184-187, 194, 210, 224 *)

NoMsg == [kind |-> "none", ip |-> "", user |-> "", count |-> 0, time |-> 0, ai |-> <<>>]

\* msg + "\n\n Analisis AI:\n" + ai, for a brute-force alert
FailedMsg(ip, user, c, text) ==
    [kind |-> "brute", ip |-> ip, user |-> user, count |-> c, time |-> 0, ai |-> text]

\* the same for a successful login
AcceptedMsg(ip, user, t, text) ==
    [kind |-> "success", ip |-> ip, user |-> user, count |-> 0, time |-> t, ai |-> text]

---------------------------------------------------------------------------
(* The log tail, tail_file (lines 133-156), and the log directory.          *)
(*                                                                          *)
(* A file is a sequence of chunks of equal length, and a position counts    *)
(* chunks.  A chunk is a whole line with its newline ("line"), the first    *)
(* piece of a line, without a newline ("head"), or the remaining piece of   *)
(* that line, ending in the newline ("rest").  A yielded string is a chunk: *)
(* a head and its rest read together are the whole line.                    *)

Inodes == 1..MaxFiles

Chunk(id, part) == [id |-> id, part |-> part]

\* the empty string
Nothing == Chunk(-1, "")

EndsWithHead(c) == c # <<>> /\ c[Len(c)].part = "head"

\* f.readline() at position p of content c: up to and including the next
\* newline, or up to the end of the file when no newline follows
Readline(c, p) ==
    IF p >= Len(c) THEN [line |-> Nothing, pos |-> p]
    ELSE IF c[p + 1].part = "head" /\ p + 2 <= Len(c) /\ c[p + 2].part = "rest"
    THEN [line |-> Chunk(c[p + 1].id, "line"), pos |-> p + 2]
    ELSE [line |-> c[p + 1], pos |-> p + 1]

\* the file read from its beginning after it is opened
SeekEnd_Start(c) == 0

\* f.seek(0, 2), lines 138 and 154
SeekEnd(c) == Len(c)

\* tail_file, lines 137-139: f = open(path); f.seek(0, 2); inode = None,
\* on a log that holds one line already
InitTail ==
    /\ files = [i \in Inodes |-> IF i = 1 THEN <<Chunk(0, "line")>> ELSE <<>>]
    /\ pathIno = 1
    /\ readable = TRUE
    /\ made = 1
    /\ nwritten = 0
    /\ f = [ino |-> 1, pos |-> SeekEnd(<<Chunk(0, "line")>>), open |-> TRUE]
    /\ inode = 0
    /\ tpc = "loop"
    /\ yielded = {}
    /\ again = {}

\* the writer appends a whole line to the file at the path
AppendLine ==
    /\ pathIno # 0
    /\ nwritten < MaxWrites
    /\ ~EndsWithHead(files[pathIno])
    /\ files' = [files EXCEPT ![pathIno] = Append(@, Chunk(nwritten + 1, "line"))]
    /\ nwritten' = nwritten + 1
    /\ UNCHANGED <<pathIno, readable, made, f, inode, tpc, yielded, again>>
    /\ UNCHANGED mainVars

\* the writer appends the first piece of a line
AppendHead ==
    /\ pathIno # 0
    /\ nwritten < MaxWrites
    /\ ~EndsWithHead(files[pathIno])
    /\ files' = [files EXCEPT ![pathIno] = Append(@, Chunk(nwritten + 1, "head"))]
    /\ nwritten' = nwritten + 1
    /\ UNCHANGED <<pathIno, readable, made, f, inode, tpc, yielded, again>>
    /\ UNCHANGED mainVars

\* the writer appends the remaining piece of the line it has begun
AppendRest ==
    /\ pathIno # 0
    /\ EndsWithHead(files[pathIno])
    /\ LET c == files[pathIno] IN
           files' = [files EXCEPT ![pathIno] = Append(@, Chunk(c[Len(c)].id, "rest"))]
    /\ UNCHANGED <<pathIno, readable, made, nwritten, f, inode, tpc, yielded,
                   again>>
    /\ UNCHANGED mainVars

\* rotation in one step: the old file is renamed away and a new, empty file
\* takes the path; the monitor may or may not be allowed to open it
Rotate ==
    /\ pathIno # 0
    /\ made < MaxFiles
    /\ made' = made + 1
    /\ pathIno' = made + 1
    /\ readable' \in BOOLEAN
    /\ UNCHANGED <<files, nwritten, f, inode, tpc, yielded, again>>
    /\ UNCHANGED mainVars

\* rotation in two steps, the first: the file is renamed away
Remove ==
    /\ pathIno # 0
    /\ pathIno' = 0
    /\ UNCHANGED <<files, readable, made, nwritten, f, inode, tpc, yielded,
                   again>>
    /\ UNCHANGED mainVars

\* rotation in two steps, the second: a new, empty file is created
Create ==
    /\ pathIno = 0
    /\ made < MaxFiles
    /\ made' = made + 1
    /\ pathIno' = made + 1
    /\ readable' \in BOOLEAN
    /\ UNCHANGED <<files, nwritten, f, inode, tpc, yielded, again>>
    /\ UNCHANGED mainVars

\* a file that was at the path before is renamed back to the vacant path
Restore ==
    /\ pathIno = 0
    /\ \E i \in 1..made : pathIno' = i
    /\ UNCHANGED <<files, readable, made, nwritten, f, inode, tpc, yielded, again>>
    /\ UNCHANGED mainVars

\* the file at the path is truncated in place (logrotate copytruncate)
Truncate ==
    /\ pathIno # 0
    /\ files[pathIno] # <<>>
    /\ files' = [files EXCEPT ![pathIno] = <<>>]
    /\ UNCHANGED <<pathIno, readable, made, nwritten, f, inode, tpc, yielded, again>>
    /\ UNCHANGED mainVars

\* the file at the path is made readable to the monitor
Chmod ==
    /\ pathIno # 0
    /\ ~readable
    /\ readable' = TRUE
    /\ UNCHANGED <<files, pathIno, made, nwritten, f, inode, tpc, yielded,
                   again>>
    /\ UNCHANGED mainVars

\* tail_file, lines 141-145: one readline; a non-empty string is yielded, an
\* empty one leads to the sleep.  readline on a closed file raises ValueError,
\* outside the try of lines 146-156.
TailReadline ==
    /\ tpc = "loop"
    /\ IF ~f.open THEN
           /\ tpc' = "raised"
           /\ UNCHANGED <<f, yielded, again>>
       ELSE
           LET r == Readline(files[f.ino], f.pos) IN
           IF r.line # Nothing THEN
               /\ yielded' = yielded \cup {r.line}
               /\ again' = IF r.line \in yielded THEN again \cup {r.line} ELSE again
               /\ f' = [f EXCEPT !.pos = r.pos]
               /\ tpc' = "loop"
           ELSE
               /\ tpc' = "sleep"
               /\ UNCHANGED <<f, yielded, again>>
    /\ UNCHANGED <<files, pathIno, readable, made, nwritten, inode>>
    /\ UNCHANGED mainVars

\* tail_file, lines 145-156: after the sleep, the rotation recheck.  os.stat
\* raises when the path names nothing; open raises when it is not permitted,
\* after f.close() has run; except Exception: pass swallows both.
TailRecheck ==
    /\ tpc = "sleep"
    /\ LET known == IF inode = 0 THEN f.ino ELSE inode IN
           IF pathIno = 0 THEN
               /\ inode' = known
               /\ UNCHANGED f
           ELSE IF pathIno # known THEN
               IF readable THEN
                   /\ f' = [ino |-> pathIno, pos |-> SeekEnd(files[pathIno]),
                            open |-> TRUE]
                   /\ inode' = pathIno
               ELSE
                   /\ f' = [f EXCEPT !.open = FALSE]
                   /\ inode' = known
           ELSE
               /\ inode' = known
               /\ UNCHANGED f
    /\ tpc' = "loop"
    /\ UNCHANGED <<files, pathIno, readable, made, nwritten, yielded, again>>
    /\ UNCHANGED mainVars

NextTail ==
    \/ AppendLine
    \/ AppendHead
    \/ AppendRest
    \/ Rotate
    \/ Remove
    \/ Create
    \/ Restore
    \/ Truncate
    \/ Chmod
    \/ TailReadline
    \/ TailRecheck

---------------------------------------------------------------------------
(* The state machine *)

\* which of GEMINI_API_KEY, FONNTE_TOKEN and FONNTE_DEVICE_NO are set, and
\* NOTIFY_ON_SUCCESS
Settings == [gemini : BOOLEAN, token : BOOLEAN, device : BOOLEAN,
             notifySuccess : BOOLEAN]

\* the settings with FONNTE_TOKEN and FONNTE_DEVICE_NO set together or not
\* at all
Configs == {c \in Settings : c.token = c.device}

\* the value of alerted when alerts are not recorded
NotRecorded == {"-"}

InitRest ==
    /\ pc = "read"
    /\ cur = NoLine
    /\ now = 0
    /\ count = 0
    /\ attempts = [i \in IPs |-> <<>>]
    /\ ai = <<>>
    /\ attempt = 1
    /\ requests = 0
    /\ waits = <<>>
    /\ last = NoOutcome
    /\ retried = 0
    /\ nsent = 0
    /\ posts = 0
    /\ posted = "none"
    /\ delivered = FALSE
    /\ lastMsg = NoMsg
    /\ hist = [i \in IPs |-> <<>>]

Init ==
    /\ cfg \in Configs
    /\ alerted = NotRecorded
    /\ InitRest
    /\ InitTail

\* success notifications disabled, alerts recorded
InitBurst ==
    /\ cfg \in {c \in Configs : ~c.notifySuccess}
    /\ alerted = {}
    /\ InitRest
    /\ InitTail

RECURSIVE SumLen(_, _)
SumLen(h, S) ==
    IF S = {} THEN 0
    ELSE LET i == CHOOSE x \in S : TRUE IN Len(h[i]) + SumLen(h, S \ {i})

\* failed lines recorded since the last alert of their IP, over all IPs
Pending == SumLen(hist, IPs)

\* entering analyze_with_gemini: its locals start afresh
EnterAnalyze ==
    /\ attempt' = 1
    /\ requests' = 0
    /\ waits' = <<>>
    /\ last' = NoOutcome
    /\ retried' = 0

\* an accepted login handed to no one: the next line is read at once
Dispatch_AcceptedDropped(k, c) ==
    IF k = "Failed" /\ ThresholdReached(c) THEN "analyze" ELSE "read"

\* main, lines 170, 182, 199 and 203: where the flow goes once the line is
\* classified (k) and, for a failed login, counted (c)
Dispatch(k, c) ==
    IF k = "Failed" THEN (IF ThresholdReached(c) THEN "analyze" ELSE "read")
    ELSE IF k = "Accepted" THEN "analyze"
    ELSE "read"

\* main, lines 165-182 and 199-203: take the next line from the tail, classify
\* it, and for a failed login update the window of its IP.
MainReadLine ==
    /\ pc = "read"
    /\ \E line \in Lines, t \in Clock :
        LET k == Classify(line, cfg.notifySuccess) IN
        /\ cur' = line
        /\ now' = t
        /\ nsent' = 0
        /\ posts' = 0
        /\ posted' = "none"
        /\ delivered' = FALSE
        /\ lastMsg' = NoMsg
        /\ IF k = "Failed" THEN
               LET ip == line.f.ip
                   w  == OnFailed(attempts[ip], t) IN
               /\ Pending < MaxPending
               /\ attempts' = [attempts EXCEPT ![ip] = w]
               /\ hist' = [hist EXCEPT ![ip] = Append(@, t)]
               /\ count' = Len(w)
               /\ pc' = Dispatch(k, Len(w))
           ELSE
               /\ UNCHANGED <<attempts, hist, count>>
               /\ pc' = Dispatch(k, count)
    /\ UNCHANGED <<cfg, ai, attempt, requests, waits, last, retried, alerted>>
    /\ UNCHANGED tailVars

\* analyze_with_gemini, lines 81-82: no credential, no request
AnalyzeNoKey ==
    /\ pc = "analyze"
    /\ ~cfg.gemini
    /\ ai' = AI_NONAKTIF
    /\ pc' = "send"
    /\ UNCHANGED <<cfg, cur, now, count, attempts, attempt, requests, waits,
                   last, retried, nsent, posts, posted, delivered, lastMsg, hist,
                   alerted>>
    /\ UNCHANGED tailVars

\* analyze_with_gemini, lines 97-130: one request and what follows it
AnalyzeAttempt ==
    /\ pc = "analyze"
    /\ cfg.gemini
    /\ attempt <= max_retries
    /\ \E o \in Outcomes :
        LET it == Iteration(o) IN
        /\ requests' = requests + 1
        /\ last' = o
        /\ retried' = IF Retryable(o) THEN retried + 1 ELSE retried
        /\ IF it.do = "return" THEN
               /\ ai' = it.val
               /\ pc' = "send"
               /\ UNCHANGED <<attempt, waits>>
           ELSE IF it.do = "retry" THEN
               /\ waits' = Append(waits, Backoff(attempt))
               /\ attempt' = attempt + 1
               /\ IF attempt + 1 <= max_retries
                  THEN /\ pc' = "analyze"
                       /\ UNCHANGED ai
                  ELSE IF AfterLoop.do = "return"
                  THEN /\ pc' = "send"
                       /\ ai' = AfterLoop.val
                  ELSE /\ pc' = "crashed"
                       /\ UNCHANGED ai
           ELSE
               /\ pc' = "crashed"
               /\ UNCHANGED <<ai, attempt, waits>>
    /\ UNCHANGED <<cfg, cur, now, count, attempts, nsent, posts, posted,
                   delivered, lastMsg, hist, alerted>>
    /\ UNCHANGED tailVars

\* what the transport does with one POST of send_whatsapp: a response with
\* r.ok, a response with an error status, or an exception
PostOutcomes == {"ok", "status", "exception"}

\* one of the two settings is enough
Configured_Either(c) == c.token \/ c.device

\* send_whatsapp, line 56: not (not FONNTE_TOKEN or not FONNTE_DEVICE_NO)
Configured(c) == c.token /\ c.device

\* send_whatsapp, lines 56-58 and 66: the POST is made when configured
Transport(c) == IF Configured(c) THEN PostOutcomes ELSE {"none"}

\* the window is cleared only when the alert was delivered
AfterAlert_IfDelivered(a, ip, sent) == IF sent THEN Reset(a, ip) ELSE a

\* main, lines 196-197: send_whatsapp(msg), its result dropped, then
\* attempts[ip] = []
AfterAlert(a, ip, sent) == Reset(a, ip)

\* main, lines 194-199 and 224, with send_whatsapp, lines 55-71: send the
\* message, and after a brute-force alert reset the window of its IP.
SendWhatsapp ==
    /\ pc = "send"
    /\ LET k == Classify(cur, cfg.notifySuccess) IN
        /\ lastMsg' = IF k = "Failed"
                      THEN FailedMsg(cur.f.ip, cur.f.user, count, ai)
                      ELSE AcceptedMsg(cur.a.ip, cur.a.user, now, ai)
        /\ nsent' = nsent + 1
        /\ \E p \in Transport(cfg) :
               /\ posted' = p
               /\ posts' = IF p = "none" THEN posts ELSE posts + 1
               /\ delivered' = (p = "ok")
               /\ attempts' = IF k = "Failed"
                              THEN AfterAlert(attempts, cur.f.ip, p = "ok")
                              ELSE attempts
        /\ IF k = "Failed"
           THEN /\ hist' = [hist EXCEPT ![cur.f.ip] = <<>>]
                /\ alerted' = IF alerted = NotRecorded THEN alerted
                              ELSE alerted \cup {cur.f.ip}
           ELSE UNCHANGED <<hist, alerted>>
    /\ pc' = "read"
    /\ EnterAnalyze
    /\ ai' = <<>>
    /\ UNCHANGED <<cfg, cur, now, count>>
    /\ UNCHANGED tailVars

Next ==
    \/ MainReadLine
    \/ AnalyzeNoKey
    \/ AnalyzeAttempt
    \/ SendWhatsapp

Spec == Init /\ [][Next]_vars

SpecBurst == InitBurst /\ [][Next]_vars

\* success notifications disabled, FONNTE_TOKEN and FONNTE_DEVICE_NO each
\* set or not
InitNotify ==
    /\ cfg \in {c \in Settings : ~c.notifySuccess}
    /\ alerted = NotRecorded
    /\ InitRest
    /\ InitTail

SpecNotify == InitNotify /\ [][Next]_vars

\* the tail and the log directory on their own, before main takes a line
InitTailOnly ==
    /\ cfg = [gemini |-> FALSE, token |-> FALSE, device |-> FALSE,
              notifySuccess |-> FALSE]
    /\ alerted = NotRecorded
    /\ InitRest
    /\ InitTail

SpecTail == InitTailOnly /\ [][NextTail]_vars

---------------------------------------------------------------------------
(* Vocabulary of the properties *)

\* how main treats the current line
LineKind == Classify(cur, cfg.notifySuccess)

NonDecreasing(h) == \A i, j \in DOMAIN h : i <= j => h[i] <= h[j]

\* the number of readings of h in the closed interval [lo, hi]
InInterval(h, lo, hi) == Cardinality({i \in DOMAIN h : lo <= h[i] /\ h[i] <= hi})

\* reading i of h is not older than the window before any reading from i on
Survives(h, i) == \A j \in i..Len(h) : h[i] >= h[j] - WINDOW_MINUTES

\* the readings of h that survive, in receipt order
Retained(h) ==
    LET F[i \in 0..Len(h)] ==
            IF i = 0 THEN <<>>
            ELSE IF Survives(h, i) THEN Append(F[i - 1], h[i]) ELSE F[i - 1]
    IN F[Len(h)]

\* the claims' non-retryable failure
Fatal(o) ==
    \/ o.kind \in {"nocandidates", "badcandidate", "badbody", "connerror"}
    \/ (o.kind = "http" /\ o.status # 429)

Tokens ==
    {"o", "k", " ", "\n", ")", AI_ERROR, "429", "500", "200", "HTTPError ",
     "ValueError", "ConnectionError", "TypeError", "response parsing failed",
     "empty response", "request gagal setelah beberapa retry",
     "(AI nonaktif: GEMINI_API_KEY tidak diset)"}

---------------------------------------------------------------------------
(* C1: a failed-login line that leaves its IP's count below                 *)
(* THRESHOLD_ATTEMPTS causes no send_whatsapp call and no enrichment; the   *)
(* line that brings the count to THRESHOLD_ATTEMPTS causes one, and once    *)
(* that line is processed the window of its IP is empty.                    *)
C1_ThresholdEdge ==
    LineKind = "Failed" =>
        /\ count < THRESHOLD_ATTEMPTS => (pc = "read" /\ nsent = 0 /\ lastMsg = NoMsg)
        /\ (count = THRESHOLD_ATTEMPTS /\ pc = "read") =>
               /\ nsent = 1
               /\ lastMsg.kind = "brute"
               /\ lastMsg.ip = cur.f.ip
               /\ lastMsg.count = THRESHOLD_ATTEMPTS
               /\ attempts[cur.f.ip] = <<>>

C1_Witness ==
    /\ pc = "read"
    /\ LineKind = "Failed"
    /\ count = THRESHOLD_ATTEMPTS
    /\ nsent = 1
    /\ attempts[cur.f.ip] = <<>>
    /\ \E b \in IPs : b # cur.f.ip /\ attempts[b] # <<>>

C4_Independence ==
    [][\A b \in IPs :
          attempts'[b] # attempts[b] =>
              \/ (pc = "read" /\ Classify(cur', cfg.notifySuccess) = "Failed"
                              /\ cur'.f.ip = b)
              \/ (pc = "send" /\ LineKind = "Failed" /\ cur.f.ip = b)]_vars

C4_Witness ==
    /\ pc = "read"
    /\ LineKind = "Failed"
    /\ nsent = 1
    /\ attempts[cur.f.ip] = <<>>
    /\ \E b \in IPs : b # cur.f.ip /\ Len(attempts[b]) = 1 /\ Len(hist[b]) = 1

(* C5: when a brute-force notification is sent for an IP, at least          *)
(* THRESHOLD_ATTEMPTS failed lines of that IP have been processed since     *)
(* its previous notification (or the start).                                *)
C5_BurstBetweenAlerts ==
    (pc = "send" /\ LineKind = "Failed") =>
        Len(hist[cur.f.ip]) >= THRESHOLD_ATTEMPTS

C5_Witness ==
    /\ pc = "send"
    /\ LineKind = "Failed"
    /\ cur.f.ip \in alerted
    /\ Len(hist[cur.f.ip]) > THRESHOLD_ATTEMPTS

(* C6: a failed line whose count reaches THRESHOLD_ATTEMPTS gets exactly    *)
(* one send_whatsapp call whatever the backend answers: the call chain      *)
(* never aborts, the send follows the enrichment, and the message carries   *)
(* the text the enrichment returned, the fallback text on failure.          *)
C6_NotificationNotBlocked ==
    /\ [](/\ pc # "crashed"
          /\ pc \in {"analyze", "send"} => nsent = 0
          /\ (pc = "send" /\ cfg.gemini /\ last.kind # "ok")
                 => Head(ai) = AI_ERROR
          /\ (pc = "send" /\ ~cfg.gemini) => ai = AI_NONAKTIF
          /\ (pc = "read" /\ LineKind = "Failed" /\ count >= THRESHOLD_ATTEMPTS)
                 => nsent = 1)
    /\ [][pc = "send" => (pc' = "read" /\ nsent' = 1 /\ lastMsg'.ai = ai)]_vars

C6_Witness ==
    /\ pc = "read"
    /\ LineKind = "Failed"
    /\ nsent = 1
    /\ lastMsg.kind = "brute"
    /\ lastMsg.ai = <<AI_ERROR, "request gagal setelah beberapa retry", ")">>

(* C7: analyze_with_gemini never raises and always ends with a string:      *)
(* no exception leaves it, the loop makes progress within its three         *)
(* iterations, and what it returns is a text.                               *)
C7_NeverRaises ==
    /\ pc # "crashed"
    /\ pc = "analyze" =>
           /\ attempt \in 1..3
           /\ requests = attempt - 1
           /\ ENABLED (AnalyzeNoKey \/ AnalyzeAttempt)
    /\ pc = "send" => ai \in Seq(Tokens)

C7_Witness ==
    /\ pc = "send"
    /\ requests = 3
    /\ last.kind = "connerror"
    /\ ai = <<AI_ERROR, "ConnectionError", ")">>

(* C8: when the first k requests (k = 1 or 2) end in HTTP 429 or a timeout  *)
(* and request k+1 succeeds, the call returns the text of that response     *)
(* (stripped), and its waits were 2 s, then 4 s: attempt x 2.               *)
C8_RetryThenSuccess ==
    \A k \in {1, 2} :
        (/\ pc = "send"
         /\ requests = k + 1
         /\ retried = k
         /\ last.kind = "ok") =>
            /\ ai = <<"o", "k">>
            /\ waits = [i \in 1..k |-> 2 * i]
            /\ NonDecreasing(waits)

C8_Witness ==
    /\ pc = "send"
    /\ requests = 3
    /\ retried = 2
    /\ last.kind = "ok"
    /\ last.text = <<" ", "o", "k", "\n">>
    /\ waits = <<2, 4>>

(* C9: one call makes at most 3 requests; when all three end in HTTP 429    *)
(* or a timeout the call has returned the fallback string.                  *)
C9_RetryExhaustion ==
    /\ requests <= 3
    /\ retried = 3 =>
           /\ pc = "send"
           /\ requests = 3
           /\ ai = <<AI_ERROR, "request gagal setelah beberapa retry", ")">>

C9_Witness ==
    /\ pc = "send"
    /\ requests = 3
    /\ retried = 3
    /\ last.kind = "http"
    /\ last.status = 429
    /\ ai = AI_RETRIES

(* C10: an attempt that ends in an HTTP error other than 429, a malformed   *)
(* or empty body, or a non-timeout exception ends the call at once: it has  *)
(* returned an "(AI error: ..." string, no wait followed that attempt and   *)
(* no further request was made.                                             *)
C10_ShortCircuit ==
    Fatal(last) =>
        /\ pc = "send"
        /\ Head(ai) = AI_ERROR
        /\ ai # AI_RETRIES
        /\ retried = requests - 1
        /\ Len(waits) = requests - 1

C10_Witness ==
    /\ pc = "send"
    /\ requests = 2
    /\ last.kind = "http"
    /\ last.status = 500
    /\ waits = <<2>>
    /\ ai = <<AI_ERROR, "HTTPError ", "500", ")">>

---------------------------------------------------------------------------
(* Vocabulary of the tail's properties *)

\* the chunk has been yielded, alone or as part of its whole line
YieldedChunk(c) == \E y \in yielded : y.id = c.id

\* the recheck of this step finds the path readable and naming the file
\* that f reads
RecheckOfSameFile ==
    /\ tpc = "sleep"
    /\ tpc' = "loop"
    /\ pathIno # 0
    /\ readable
    /\ f.ino = pathIno

(* C11, as stated: after the log is replaced by a new file at the same      *)
(* path, every line written to the new file is yielded, those written       *)
(* before the recheck detects the swap included.  A line the read position  *)
(* has passed is never read again, so: behind the read position of a file   *)
(* that replaced the log there is no line that was not yielded.             *)
C11_NoLineSkipped ==
    (f.open /\ f.ino # 1) =>
        \A i \in DOMAIN files[f.ino] : i <= f.pos => YieldedChunk(files[f.ino][i])

(* C12: over appends, replacements of the file at the path and poll ticks,  *)
(* tail_file yields no string twice, and no line both whole and in pieces:  *)
(* each written line is yielded at most once.                               *)
C12_AtMostOnce ==
    /\ again = {}
    /\ \A y, z \in yielded : (y.id = z.id /\ y.part = "line") => z = y

C12_Witness ==
    /\ f.ino = 2
    /\ inode = 2
    /\ \E i \in DOMAIN files[1], j \in DOMAIN files[2] :
        /\ files[1][i].id > 0
        /\ files[1][i] \in yielded
        /\ files[2][j] \in yielded

(* C13, as stated: when the followed file has shrunk in place (same inode,  *)
(* size below the read position), the next recheck at end-of-file reopens   *)
(* the path and positions at the end of the file, so that the lines         *)
(* appended afterwards are read.                                            *)
C13_ShrinkReopens ==
    [][(RecheckOfSameFile /\ f.pos > Len(files[pathIno]))
          => f'.pos = Len(files[pathIno])]_vars

(* C14, as stated: when during a recheck the path is missing or unreadable  *)
(* (the stat fails, or the stat succeeds and the reopen fails), tail_file   *)
(* does not raise or terminate.                                             *)
C14_SurvivesUnavailability == tpc # "raised"

---------------------------------------------------------------------------
(* Vocabulary of the remaining properties of main and send_whatsapp *)

\* the current line matches the accepted pattern and not the failed one
AcceptedOnly(line) == line.a # NoMatch /\ line.f = NoMatch

\* the current line calls for a notification
NeedsNotification ==
    \/ (cur.f # NoMatch /\ count >= THRESHOLD_ATTEMPTS)
    \/ (AcceptedOnly(cur) /\ cfg.notifySuccess)

(* C15: with NOTIFY_ON_SUCCESS enabled every line that matches the          *)
(* accepted pattern and not the failed one gets exactly one send_whatsapp   *)
(* call, whose message names its user and IP, whatever was sent before,     *)
(* and no step of its processing changes any IP's window; with              *)
(* NOTIFY_ON_SUCCESS disabled such a line causes no enrichment and no       *)
(* notification.                                                            *)
C15_AcceptedPath ==
    /\ [](AcceptedOnly(cur) =>
            /\ cfg.notifySuccess =>
                   /\ pc # "read" => nsent = 0
                   /\ pc = "read" =>
                          /\ nsent = 1
                          /\ lastMsg.kind = "success"
                          /\ lastMsg.user = cur.a.user
                          /\ lastMsg.ip = cur.a.ip
            /\ ~cfg.notifySuccess =>
                   /\ pc = "read"
                   /\ nsent = 0
                   /\ requests = 0
                   /\ ai = <<>>
                   /\ lastMsg = NoMsg)
    /\ [][AcceptedOnly(cur') => attempts' = attempts]_vars

C15_Witness ==
    /\ pc = "read"
    /\ AcceptedOnly(cur)
    /\ cfg.notifySuccess
    /\ nsent = 1
    /\ lastMsg.kind = "success"
    /\ lastMsg.user = "deploy"
    /\ \E b \in IPs : Len(attempts[b]) = 2

(* C16: one send_whatsapp call makes at most one POST; with FONNTE_TOKEN    *)
(* or FONNTE_DEVICE_NO not set it makes none and returns False; when the    *)
(* POST raises or is answered with an error status it returns False and     *)
(* makes no second POST; it returns True only when the transport reported   *)
(* success.                                                                 *)
C16_SingleShot ==
    /\ nsent <= 1
    /\ posts <= nsent
    /\ nsent = 0 => (posted = "none" /\ ~delivered)
    /\ nsent = 1 =>
           /\ ~(cfg.token /\ cfg.device) => (posts = 0 /\ posted = "none" /\ ~delivered)
           /\ (cfg.token /\ cfg.device) => (posts = 1 /\ posted \in PostOutcomes)
           /\ posted \in {"status", "exception"} => ~delivered
           /\ delivered <=> posted = "ok"

C16_Witness ==
    /\ pc = "read"
    /\ nsent = 1
    /\ cfg.token
    /\ ~cfg.device
    /\ posts = 0
    /\ ~delivered
    /\ lastMsg.kind = "brute"

(* C17: main handles one line at a time: while a line is classified,        *)
(* enriched (all retries and waits included) and notified no other line is  *)
(* taken; the next line is taken only when the notification the current     *)
(* line calls for has been sent and no enrichment call is under way; and a  *)
(* notification is sent only for the line in hand, so notifications leave   *)
(* in the order of the lines.                                               *)
C17_Sequential ==
    [][/\ pc # "read" => (cur' = cur /\ now' = now /\ count' = count)
       /\ pc = "read" =>
              /\ NeedsNotification => (nsent = 1 /\ lastMsg # NoMsg)
              /\ requests = 0
              /\ waits = <<>>
              /\ ai = <<>>
       /\ nsent' > nsent =>
              /\ pc = "send"
              /\ nsent = 0
              /\ NeedsNotification
              /\ lastMsg'.ip = IF cur.f # NoMatch THEN cur.f.ip ELSE cur.a.ip]_vars

C17_Witness ==
    /\ pc = "send"
    /\ AcceptedOnly(cur)
    /\ nsent = 0
    /\ requests = 3
    /\ retried = 2
    /\ waits = <<2, 4>>
    /\ \E b \in IPs : attempts[b] # <<>>

(* C18, as stated: every backoff wait is followed by another request, so a  *)
(* call that made k requests has waited k - 1 times; no wait follows the    *)
(* third failed request.                                                    *)
C18_WaitsBetweenTries ==
    (pc = "send" /\ requests >= 1) => Len(waits) = requests - 1

(* C19: whenever main is about to read the next line every IP's window      *)
(* holds fewer than THRESHOLD_ATTEMPTS timestamps, and once the alert of a  *)
(* failed line has been handed to send_whatsapp the window of its IP is     *)
(* empty, whether or not the notification was delivered.                    *)
C19_WindowBound ==
    /\ pc = "read" => \A ip \in IPs : Len(attempts[ip]) < THRESHOLD_ATTEMPTS
    /\ (pc = "read" /\ cur.f # NoMatch /\ nsent = 1) => attempts[cur.f.ip] = <<>>

C19_Witness ==
    /\ pc = "read"
    /\ cur.f # NoMatch
    /\ nsent = 1
    /\ posted = "exception"
    /\ ~delivered
    /\ attempts[cur.f.ip] = <<>>
    /\ \E b \in IPs : b # cur.f.ip /\ attempts[b] # <<>>

(* C20, as stated: every string tail_file yields is one complete            *)
(* newline-terminated line; the first piece of a line written in two        *)
(* pieces is not yielded on its own.                                        *)
C20_WholeLinesOnly == \A y \in yielded : y.part = "line"

====
